---- MODULE Spec2Model ----
(***************************************************************************)
(* The human-in-the-loop form-filling orchestrator EZLynxFormAutomation    *)
(* (src/scrapybara_automation.py) as a state machine.                      *)
(*                                                                         *)
(* Text (agent output, field names, prompts, log messages) is a sequence   *)
(* of tokens.  A token is the marker, a dash, a whitespace character or a  *)
(* word (a non-empty run of text holding neither of these at its ends).    *)
(* The marker has no proper border, so substring search for it is search   *)
(* for the token.                                                          *)
(*                                                                         *)
(* An orchestrator method runs as a sequence of steps; pc is the position  *)
(* of the method in progress ("idle" when none is).  Steps are cut at      *)
(* every await and at every assignment of self.status.                     *)
(***************************************************************************)
EXTENDS Integers, Sequences, FiniteSets, TLC

\* ------------------------------------------------------------------ bounds
\* Orchestrator method calls made by the caller in one session.
MaxCalls == 3
\* Longest agent output, in tokens, of the parsing specification.
MaxLen == 5

\* ------------------------------------------------------------------ text
Marker == "HUMAN_INPUT_REQUIRED:"
Dash == "-"
Whitespace == {" ", "\n"}

EmptyStr == << >>

\* `sub in s` for a one-token sub
Contains(s, tok) == \E i \in 1..Len(s) : s[i] = tok

\* str.split(sep): the pieces between the occurrences of sep, empty ones kept
RECURSIVE Split(_, _)
Split(s, sep) ==
    IF ~Contains(s, sep) THEN <<s>>
    ELSE LET i == CHOOSE k \in 1..Len(s) :
                      s[k] = sep /\ \A j \in 1..(k - 1) : s[j] # sep
         IN  <<SubSeq(s, 1, i - 1)>> \o Split(SubSeq(s, i + 1, Len(s)), sep)

\* sep.join(pieces)
RECURSIVE Join(_, _)
Join(sep, pieces) ==
    IF pieces = << >> THEN EmptyStr
    ELSE IF Len(pieces) = 1 THEN pieces[1]
    ELSE pieces[1] \o <<sep>> \o Join(sep, Tail(pieces))

RECURSIVE LStrip(_)
LStrip(s) == IF s # << >> /\ Head(s) \in Whitespace THEN LStrip(Tail(s)) ELSE s

RECURSIVE RStrip(_)
RStrip(s) ==
    IF s # << >> /\ s[Len(s)] \in Whitespace
    THEN RStrip(SubSeq(s, 1, Len(s) - 1)) ELSE s

\* str.strip()
Strip(s) == RStrip(LStrip(s))

\* result.final_output.split("HUMAN_INPUT_REQUIRED:")[1].strip()
ParseInputRequest(final_output) == Strip(Split(final_output, Marker)[2])

\* input_request.split("-")[0] without the strip()
ParseFieldNameUntrimmed(final_output) ==
    Split(ParseInputRequest(final_output), Dash)[1]

\* input_request.split("-")[0].strip()
ParseFieldName(final_output) ==
    Strip(Split(ParseInputRequest(final_output), Dash)[1])

\* a faulty variant: the pieces after the field name are joined without the
\* dash
ParseExplanationDroppingDashes(final_output) ==
    Strip(Join(" ", Tail(Split(ParseInputRequest(final_output), Dash))))

\* "-".join(input_request.split("-")[1:]).strip()
ParseExplanation(final_output) ==
    Strip(Join(Dash, Tail(Split(ParseInputRequest(final_output), Dash))))

\* f"Please provide value for: {field_name}\n{explanation}"
PromptFor(field, expl) ==
    <<"Please provide value for: ">> \o field \o <<"\n">> \o expl

\* ------------------------------------------------------------------ dict
\* human_inputs_collected: an insertion-ordered dict, as a sequence of items
DictHas(d, k) == \E i \in 1..Len(d) : d[i].field = k

DictGet(d, k) == d[CHOOSE i \in 1..Len(d) : d[i].field = k].value

\* d = {k: v} in place of d[k] = v: the dict is rebuilt from the one item
DictSetRebuilding(d, k, v) == <<[field |-> k, value |-> v]>>

\* d[k] = v: an existing key keeps its place, a new key goes last
DictSet(d, k, v) ==
    IF DictHas(d, k)
    THEN [i \in 1..Len(d) |->
             IF d[i].field = k THEN [field |-> k, value |-> v] ELSE d[i]]
    ELSE Append(d, [field |-> k, value |-> v])

\* ---------------------------------------------------------------- prompts
\* lines 173-182: the login prompt
LoginPrompt(url, username, password) ==
    <<"Navigate to the following web page: URL: ">> \o url
    \o <<"Log in using the following credentials: Username: ">> \o username
    \o <<"Password: ">> \o password
    \o <<"Wait for the page to load after login.">>

\* lines 235-251: the form filling prompt
FillPrompt(email_body) ==
    <<"You are now logged into EZLynx. ... information from this email:">>
    \o email_body
    \o <<"Follow these steps: ... be methodical in filling out the form.">>

InputsHeader ==
    "You have received additional information from a human for fields that weren't in the email:"

InputsFooter ==
    "Please continue filling out the form with this new information. ... Continue where you left off with the form."

\* a faulty variant: only the item stored last is listed
HumanInputsTextOfLast(d) ==
    IF d = << >> THEN EmptyStr
    ELSE d[Len(d)].field \o <<": ">> \o d[Len(d)].value

\* line 349: "\n".join([f"{field}: {value}" for field, value in d.items()])
HumanInputsText(d) ==
    Join("\n", [i \in 1..Len(d) |-> d[i].field \o <<": ">> \o d[i].value])

\* lines 351-369: the continuation prompt
ContinuationPrompt(email_body, d) ==
    <<"Continue filling out the EZLynx form. You were previously working with this email content:">>
    \o email_body \o <<InputsHeader>> \o HumanInputsText(d) \o <<InputsFooter>>

\* ------------------------------------------------------------------ state
VARIABLES
    status,                 \* self.status
    computer,               \* self.computer: "None", or the state of the object
    credentials,            \* self.credentials (a missing key reads as "")
    email_content,          \* self.email_content (a missing body reads as "")
    require_human_input,    \* self.require_human_input
    human_input_prompt,     \* self.human_input_prompt
    human_input_field,      \* self.human_input_field
    human_inputs_collected, \* self.human_inputs_collected
    log_entries,            \* self.log_entries
    log_file,               \* automation_log.json: << >> or <<the record>>
    instance_id_file,       \* instance_id.txt
    pc,                     \* position of the method in progress
    caller,                 \* "api": called directly, "run": by run_automation
    op,                     \* the method entered last
    input_value,            \* provide_human_input's argument
    agent_prompt,           \* the text Runner.run was called with (a local)
    result,                 \* what the awaited Runner.run produced (a local)
    ret,                    \* the value the last method returned
    agent_runs,             \* Runner.run invocations of the method entered last
    calls,                  \* method calls made by the caller so far
    instance_id_arg,        \* __init__'s instance_id argument ("None": not given)
    instance_id             \* self.instance_id

\* app.py: the service and the tasks of its event loop
VARIABLES
    automation_instance,    \* the global: 0 for None, or an index of instances
    instances,              \* the EZLynxFormAutomation objects created so far
    tasks,                  \* the coroutines in progress, by creation
    requests,               \* number of requests received so far
    response                \* status code and error text of the last response

\* the session Spec and SpecParse follow
orchestrator ==
    <<status, computer, credentials, email_content, require_human_input,
      human_input_prompt, human_input_field, human_inputs_collected,
      log_entries, log_file, instance_id_file, pc, caller, op,
      input_value, agent_prompt, result, ret, agent_runs, calls,
      instance_id_arg, instance_id>>

\* the service SpecService follows
service == <<automation_instance, instances, tasks, requests, response>>

vars == <<orchestrator, service>>

\* the orchestrator's own fields and files, apart from status and the log
session == <<computer, credentials, email_content, require_human_input,
             human_input_prompt, human_input_field, human_inputs_collected,
             instance_id_file>>

\* ------------------------------------------------------------------ inputs
Url == <<"https://ezlynx.example">>
User == <<"agent1">>
Pass == <<"secret">>
Body == <<"Acme Corp, 123 Main St">>

IndustryOutput ==
    <<"...", Marker, " ", "Industry", " ", Dash, " ", "no industry mentioned">>

BusinessAddressOutput ==
    <<"...", Marker, " ", "Business Address", " ", Dash, " ",
      "Not present in the email text">>

\* the final outputs Runner.run returns in the session specification
AgentOutputs ==
    { <<"Form submitted successfully.">>, IndustryOutput, BusinessAddressOutput }

InputValues == { <<"Plumbing">>, <<"123 Main St">> }

NoResult ==
    [kind |-> "none", final_output |-> EmptyStr,
     pending_safety_checks |-> FALSE, message |-> EmptyStr]

\* Runner.run returns a result, whose last input item may carry pending
\* safety checks, or raises
AgentResults ==
    { [kind |-> "ok", final_output |-> o, pending_safety_checks |-> p,
       message |-> EmptyStr] : o \in AgentOutputs, p \in BOOLEAN }
    \cup { [kind |-> "raise", final_output |-> EmptyStr,
            pending_safety_checks |-> FALSE, message |-> <<"agent failure">>] }

\* ------------------------------------------------------------------ log
Entry(level, message) == [level |-> level, message |-> message]

\* _save_log: the record written to automation_log.json
SaveLog(st, entries, req, prompt, field) ==
    [status |-> st, log_entries |-> entries, require_human_input |-> req,
     human_input_prompt |-> prompt, human_input_field |-> field]

\* a faulty variant: the new entries replace the log
LogReplacing(entries, st, req, prompt, field) ==
    /\ log_entries' = entries
    /\ log_file' = <<SaveLog(st, entries, req, prompt, field)>>

\* self.log, once per entry; st, req, prompt and field are the fields at the
\* last of the calls
Log(entries, st, req, prompt, field) ==
    /\ log_entries' = log_entries \o entries
    /\ log_file' = <<SaveLog(st, log_entries \o entries, req, prompt, field)>>

\* a log call between which and the end of the step only status changes
LogAt(entries, st) ==
    Log(entries, st, require_human_input, human_input_prompt, human_input_field)

\* ================================================================ service
\* app.py: the endpoints and the background task, as the tasks of one event
\* loop.  A step is what a coroutine does from one await to the next; the
\* orchestrator's methods are followed on the fields the service depends on.
MaxRequests == 3

\* EZLynxFormAutomation.__init__: credentials and body tell whether
\* _load_data found the credentials complete and the email body non-empty
NewInstance(has_credentials, has_body) ==
    [status |-> "initialized",
     computer |-> "None",
     require_human_input |-> FALSE,
     has_credentials |-> has_credentials,
     has_body |-> has_body,
     human_inputs_collected |-> 0,   \* number of values stored
     stop_calls |-> 0]               \* self.computer.stop() invocations

\* a coroutine: the background run_automation ("run"), the continuation of
\* /provide-input ("provide") or of /stop-automation ("stop"), on instance
\* inst (0: none)
Task(kind, at, inst) == [kind |-> kind, pc |-> at, inst |-> inst]

\* no request was received yet
NoService ==
    /\ automation_instance = 0
    /\ instances = << >>
    /\ tasks = << >>
    /\ requests = 0
    /\ response = [code |-> 0, error |-> ""]

\* the coroutine t has returned: it leaves the event loop
Finished(t) == SubSeq(tasks, 1, t - 1) \o SubSeq(tasks, t + 1, Len(tasks))

\* one more request is received and handled up to its first await
Received == requests < MaxRequests /\ requests' = requests + 1

Respond(code, error) == response' = [code |-> code, error |-> error]

\* ------------------------------------------------------------------ init
\* __init__ and _load_data: a file that is missing or cannot be read leaves
\* both records empty, the second with an error entry
Constructed ==
    /\ status = "initialized"
    /\ computer = "None"
    /\ instance_id = "None"          \* line 46, whatever the argument
    /\ \E load_failed \in BOOLEAN :
          IF load_failed
          THEN /\ credentials = [destination_url |-> EmptyStr,
                                 username |-> EmptyStr, password |-> EmptyStr]
               /\ email_content = [body |-> EmptyStr]
               /\ log_entries = <<Entry("error", <<"Error loading data: ", "bad file">>)>>
               /\ log_file = <<SaveLog("initialized", log_entries, FALSE,
                                        EmptyStr, EmptyStr)>>
          ELSE /\ credentials \in [destination_url : {EmptyStr, Url},
                                   username : {EmptyStr, User},
                                   password : {EmptyStr, Pass}]
               /\ email_content \in [body : {EmptyStr, Body}]
               /\ log_entries = << >>
               /\ log_file = << >>
    /\ require_human_input = FALSE
    /\ human_input_prompt = EmptyStr
    /\ human_input_field = EmptyStr
    /\ human_inputs_collected = << >>
    /\ instance_id_file = "absent"
    /\ pc = "idle"
    /\ caller = "api"
    /\ op = "__init__"
    /\ input_value = EmptyStr
    /\ agent_prompt = EmptyStr
    /\ result = NoResult
    /\ ret = "None"
    /\ agent_runs = 0
    /\ calls = 0
    /\ NoService

\* the orchestrator was constructed without an instance id
Init == Constructed /\ instance_id_arg = "None"

\* ------------------------------------------------------------------ calls
\* the caller invokes a method when none is in progress
Call(method, start) ==
    /\ pc = "idle"
    /\ calls < MaxCalls
    /\ calls' = calls + 1
    /\ pc' = start
    /\ caller' = IF method = "run_automation" THEN "run" ELSE "api"
    /\ op' = method
    /\ agent_runs' = 0
    /\ result' = NoResult
    /\ UNCHANGED <<status, session, log_entries, log_file, ret, agent_prompt,
                   instance_id_arg, instance_id, service>>

call_initialize_scrapybara ==
    Call("initialize_scrapybara", "init_begin") /\ UNCHANGED input_value

call_login_with_agent ==
    Call("login_with_agent", "login_begin") /\ UNCHANGED input_value

call_fill_applicant_form ==
    Call("fill_applicant_form", "fill_begin") /\ UNCHANGED input_value

call_provide_human_input ==
    /\ Call("provide_human_input", "provide_begin")
    /\ input_value' \in InputValues

call_run_automation ==
    Call("run_automation", "init_begin") /\ UNCHANGED input_value

call_cleanup ==
    Call("cleanup", "cleanup_begin") /\ UNCHANGED input_value

\* a method returns r: to run_automation at `after`, or to the caller; its
\* argument goes out of scope
Return(r, after) ==
    /\ ret' = r
    /\ pc' = IF caller = "run" THEN after ELSE "idle"
    /\ input_value' = EmptyStr
    /\ agent_prompt' = EmptyStr
    /\ UNCHANGED <<caller, calls, instance_id_arg, instance_id, service>>

\* the method goes on to its next position
Goto(next) ==
    /\ pc' = next
    /\ UNCHANGED <<caller, calls, input_value, ret, agent_prompt,
                   instance_id_arg, instance_id, service>>

\* await Runner.run(agent, text, ...): the method suspends at `next`
RunAgent(text, next) ==
    /\ pc' = next
    /\ agent_prompt' = text
    /\ UNCHANGED <<caller, calls, input_value, ret, instance_id_arg, instance_id,
                   service>>

\* ------------------------------------------------- initialize_scrapybara
\* lines 122-123: the first log call, then status = "initializing"
initialize_scrapybara_begin ==
    /\ pc = "init_begin"
    /\ op' = "initialize_scrapybara"
    /\ agent_runs' = 0
    /\ LogAt(<<Entry("info", <<"Initializing Scrapybara instance...">>)>>, status)
    /\ status' = "initializing"
    /\ Goto("init_await")
    /\ UNCHANGED <<session, result>>

\* lines 125-154 without the write of lines 137-138: the instance id is logged
\* and not persisted
initialize_scrapybara_resume_not_persisting ==
    /\ pc = "init_await"
    /\ \/ /\ computer' = "running"
          /\ UNCHANGED instance_id_file
          /\ status' = "initialized"
          /\ LogAt(<<Entry("info", <<"Using Scrapybara Instance ID: ", "id">>),
                     Entry("info", <<"Scrapybara instance initialized successfully">>)>>,
                   "initialized")
          /\ Return("True", "run_after_init")
       \/ /\ computer' \in {computer, "no_instance", "running"}
          /\ UNCHANGED instance_id_file
          /\ status' = "error"
          /\ LogAt(<<Entry("error", <<"Error initializing Scrapybara: ",
                                      "provision failure">>)>>, "error")
          /\ Return("False", "run_after_init")
    /\ UNCHANGED <<credentials, email_content, require_human_input,
                   human_input_prompt, human_input_field,
                   human_inputs_collected, op, result, agent_runs>>

\* lines 125-154 with an except clause that puts status back to
\* "initialized" for a retry
initialize_scrapybara_resume_retryable ==
    /\ pc = "init_await"
    /\ \/ /\ computer' = "running"
          /\ instance_id_file' = "written"
          /\ status' = "initialized"
          /\ LogAt(<<Entry("info", <<"Using Scrapybara Instance ID: ", "id">>),
                     Entry("info", <<"Scrapybara instance initialized successfully">>)>>,
                   "initialized")
          /\ Return("True", "run_after_init")
       \/ /\ computer' \in {computer, "no_instance", "running"}
          /\ UNCHANGED instance_id_file
          /\ status' = "initialized"
          /\ LogAt(<<Entry("error", <<"Error initializing Scrapybara: ",
                                      "provision failure">>)>>, "initialized")
          /\ Return("False", "run_after_init")
    /\ UNCHANGED <<credentials, email_content, require_human_input,
                   human_input_prompt, human_input_field,
                   human_inputs_collected, op, result, agent_runs>>

\* lines 125-154: AsyncScrapybaraUbuntu(...) and await self.computer.initialize()
\* succeed, or one of them raises.  The constructor raising leaves
\* self.computer as it was; initialize() raising leaves the new object, with no
\* instance or with one whose browser did not start.
initialize_scrapybara_resume ==
    /\ pc = "init_await"
    /\ \/ /\ computer' = "running"
          /\ instance_id_file' = "written"
          /\ status' = "initialized"
          /\ LogAt(<<Entry("info", <<"Using Scrapybara Instance ID: ", "id">>),
                     Entry("info", <<"Scrapybara instance initialized successfully">>)>>,
                   "initialized")
          /\ Return("True", "run_after_init")
       \/ /\ computer' \in {computer, "no_instance", "running"}
          /\ UNCHANGED instance_id_file
          /\ status' = "error"
          /\ LogAt(<<Entry("error", <<"Error initializing Scrapybara: ",
                                      "provision failure">>)>>, "error")
          /\ Return("False", "run_after_init")
    /\ UNCHANGED <<credentials, email_content, require_human_input,
                   human_input_prompt, human_input_field,
                   human_inputs_collected, op, result, agent_runs>>

\* ------------------------------------------------------ login_with_agent
\* url, username and password all read as non-empty
HasCredentials ==
    /\ credentials.destination_url # EmptyStr
    /\ credentials.username # EmptyStr
    /\ credentials.password # EmptyStr

\* lines 158-200: the guards, then status = "logging_in" and the agent call
login_with_agent_begin ==
    /\ pc = "login_begin"
    /\ op' = "login_with_agent"
    /\ IF computer = "None"
       THEN /\ LogAt(<<Entry("error", <<"Scrapybara instance not initialized">>)>>,
                     status)
            /\ agent_runs' = 0
            /\ Return("False", "run_after_login")
            /\ UNCHANGED status
       ELSE IF ~HasCredentials
       THEN /\ LogAt(<<Entry("error", <<"Missing login credentials">>)>>, status)
            /\ agent_runs' = 0
            /\ Return("False", "run_after_login")
            /\ UNCHANGED status
       ELSE /\ status' = "logging_in"
            /\ LogAt(<<Entry("info", <<"Starting login process with OpenAI Agent...">>),
                       Entry("info", <<"Agent initialized, starting login process...">>)>>,
                     "logging_in")
            /\ agent_runs' = 1
            /\ RunAgent(LoginPrompt(credentials.destination_url,
                                    credentials.username, credentials.password),
                        "login_await")
    /\ UNCHANGED <<session, result>>

\* await Runner.run(...) ends: it returns a result or raises
AgentReturns ==
    /\ pc \in {"login_await", "fill_await", "provide_await"}
    /\ result' \in AgentResults
    /\ pc' = CASE pc = "login_await" -> "login_resumed"
               [] pc = "fill_await" -> "fill_resumed"
               [] pc = "provide_await" -> "provide_resumed"
    /\ UNCHANGED <<status, session, log_entries, log_file, caller, op,
                   input_value, ret, agent_prompt, agent_runs, calls,
                   instance_id_arg, instance_id, service>>

\* lines 203-216 with an except clause that logs a fixed text and leaves
\* str(e) out
login_with_agent_resume_dropping_message ==
    /\ pc = "login_resumed"
    /\ IF result.kind = "ok"
       THEN /\ status' = "logged_in"
            /\ LogAt(<<Entry("info", <<"Agent completed login: ">> \o result.final_output),
                       Entry("info", <<"Login successful">>)>>, "logged_in")
            /\ Return("True", "run_after_login")
       ELSE /\ status' = "error"
            /\ LogAt(<<Entry("error", <<"Error during login with agent">>)>>,
                     "error")
            /\ Return("False", "run_after_login")
    /\ result' = NoResult
    /\ UNCHANGED <<session, op, agent_runs>>

\* lines 203-216
login_with_agent_resume ==
    /\ pc = "login_resumed"
    /\ IF result.kind = "ok"
       THEN /\ status' = "logged_in"
            /\ LogAt(<<Entry("info", <<"Agent completed login: ">> \o result.final_output),
                       Entry("info", <<"Login successful">>)>>, "logged_in")
            /\ Return("True", "run_after_login")
       ELSE /\ status' = "error"
            /\ LogAt(<<Entry("error", <<"Error during login with agent: ">>
                                      \o result.message)>>, "error")
            /\ Return("False", "run_after_login")
    /\ result' = NoResult
    /\ UNCHANGED <<session, op, agent_runs>>

\* --------------------------------------------------- fill_applicant_form
\* faulty variant: the form is filled whatever the status is
fill_applicant_form_begin_any_status ==
    /\ pc = "fill_begin"
    /\ op' = "fill_applicant_form"
    /\ IF computer = "None"
       THEN /\ LogAt(<<Entry("error", <<"Scrapybara instance not initialized">>)>>,
                     status)
            /\ agent_runs' = 0
            /\ Return("False", "run_after_fill")
            /\ UNCHANGED status
       ELSE IF FALSE
       THEN /\ LogAt(<<Entry("error", <<"Must be logged in before filling form">>)>>,
                     status)
            /\ agent_runs' = 0
            /\ Return("False", "run_after_fill")
            /\ UNCHANGED status
       ELSE IF email_content.body = EmptyStr
       THEN /\ LogAt(<<Entry("error",
                             <<"No email content available for form filling">>)>>,
                     status)
            /\ agent_runs' = 0
            /\ Return("False", "run_after_fill")
            /\ UNCHANGED status
       ELSE /\ status' = "filling_form"
            /\ LogAt(<<Entry("info",
                             <<"Starting form filling process with OpenAI Agent...">>),
                       Entry("info",
                             <<"Agent initialized, starting form filling process...">>)>>,
                     "filling_form")
            /\ agent_runs' = 1
            /\ RunAgent(FillPrompt(email_content.body), "fill_await")
    /\ UNCHANGED <<session, result>>

\* lines 220-272: the guards, then status = "filling_form" and the agent call
fill_applicant_form_begin ==
    /\ pc = "fill_begin"
    /\ op' = "fill_applicant_form"
    /\ IF computer = "None"
       THEN /\ LogAt(<<Entry("error", <<"Scrapybara instance not initialized">>)>>,
                     status)
            /\ agent_runs' = 0
            /\ Return("False", "run_after_fill")
            /\ UNCHANGED status
       ELSE IF status # "logged_in"
       THEN /\ LogAt(<<Entry("error", <<"Must be logged in before filling form">>)>>,
                     status)
            /\ agent_runs' = 0
            /\ Return("False", "run_after_fill")
            /\ UNCHANGED status
       ELSE IF email_content.body = EmptyStr
       THEN /\ LogAt(<<Entry("error",
                             <<"No email content available for form filling">>)>>,
                     status)
            /\ agent_runs' = 0
            /\ Return("False", "run_after_fill")
            /\ UNCHANGED status
       ELSE /\ status' = "filling_form"
            /\ LogAt(<<Entry("info",
                             <<"Starting form filling process with OpenAI Agent...">>),
                       Entry("info",
                             <<"Agent initialized, starting form filling process...">>)>>,
                     "filling_form")
            /\ agent_runs' = 1
            /\ RunAgent(FillPrompt(email_content.body), "fill_await")
    /\ UNCHANGED <<session, result>>

\* lines 277-323 and 384-430: what follows the agent call in
\* fill_applicant_form and in provide_human_input
AfterAgent(errors, shot, filled, okRet, failRet, after) ==
    IF result.kind # "ok"
    THEN \* Runner.run raised
         /\ status' = "error"
         /\ LogAt(<<Entry("error", errors \o result.message)>>, "error")
         /\ Return(failRet, after)
         /\ UNCHANGED session
    ELSE IF result.pending_safety_checks
    THEN \* vals is the list of checks: del vals["pending_safety_checks"]
         \* raises TypeError before the second Runner.run
         /\ status' = "error"
         /\ LogAt(<<Entry("warn", <<"Safety checks failed, retrying...">>),
                    Entry("error", errors \o <<"TypeError">>)>>, "error")
         /\ Return(failRet, after)
         /\ UNCHANGED session
    ELSE IF Contains(result.final_output, Marker)
    THEN LET field_name == ParseFieldName(result.final_output)
             explanation == ParseExplanation(result.final_output)
         IN  /\ LogAt(<<Entry("info", <<"Screenshot saved to ", shot>>),
                        Entry("warn", <<"Human input required for field: ">>
                                          \o field_name),
                        Entry("warn", <<"Explanation: ">> \o explanation)>>,
                      status)
             /\ require_human_input' = TRUE
             /\ human_input_prompt' = PromptFor(field_name, explanation)
             /\ human_input_field' = field_name
             /\ status' = "waiting_for_input"
             /\ Return("requires_input", after)
             /\ UNCHANGED <<computer, credentials, email_content,
                            human_inputs_collected, instance_id_file>>
    ELSE /\ status' = "form_filled"
         /\ LogAt(<<Entry("info", filled),
                    Entry("info", <<"Agent output: ">> \o result.final_output)>>,
                  "form_filled")
         /\ Return(okRet, after)
         /\ UNCHANGED session

\* lines 277-323
fill_applicant_form_resume ==
    /\ pc = "fill_resumed"
    /\ AfterAgent(<<"Error during form filling with agent: ">>,
                  "screenshots/form_input_needed.png",
                  <<"Form filled successfully">>,
                  "True", "False", "run_after_fill")
    /\ result' = NoResult
    /\ UNCHANGED <<op, agent_runs>>

\* --------------------------------------------------- provide_human_input
\* a faulty variant: the rejection is treated like the other failures of the
\* method and sets status to "error"
provide_human_input_rejected_setting_error ==
    /\ pc = "provide_begin"
    /\ computer = "None" \/ status # "waiting_for_input"
    /\ op' = "provide_human_input"
    /\ agent_runs' = 0
    /\ status' = "error"
    /\ LogAt(<<Entry("error", <<"Not waiting for human input">>)>>, "error")
    /\ Return("False", "idle")
    /\ UNCHANGED <<session, result>>

\* lines 327-333: the guards
provide_human_input_rejected ==
    /\ pc = "provide_begin"
    /\ computer = "None" \/ status # "waiting_for_input"
    /\ op' = "provide_human_input"
    /\ agent_runs' = 0
    /\ LogAt(<<Entry("error",
                     IF computer = "None"
                     THEN <<"Scrapybara instance not initialized">>
                     ELSE <<"Not waiting for human input">>)>>, status)
    /\ Return("False", "idle")
    /\ UNCHANGED <<status, session, result>>

\* lines 335-382: the value is stored, the flag cleared, status set to
\* "filling_form" and the continuation agent called
provide_human_input_begin ==
    /\ pc = "provide_begin"
    /\ computer # "None" /\ status = "waiting_for_input"
    /\ op' = "provide_human_input"
    /\ human_inputs_collected' =
           DictSet(human_inputs_collected, human_input_field, input_value)
    /\ require_human_input' = FALSE
    /\ status' = "filling_form"
    /\ Log(<<Entry("info", <<"Received human input for ">> \o human_input_field
                             \o <<": ">> \o input_value),
             Entry("info", <<"Agent continuing form filling with human input...">>)>>,
           "filling_form", FALSE, human_input_prompt, human_input_field)
    /\ agent_runs' = 1
    /\ RunAgent(ContinuationPrompt(email_content.body, human_inputs_collected'),
                "provide_await")
    /\ UNCHANGED <<computer, credentials, email_content, human_input_prompt,
                   human_input_field, instance_id_file, result>>

\* lines 384-430
provide_human_input_resume ==
    /\ pc = "provide_resumed"
    /\ AfterAgent(<<"Error during form filling with human input: ">>,
                  "screenshots/form_input_needed_again.png",
                  <<"Form filled successfully with human input">>,
                  "success_dict", "failure_dict", "idle")
    /\ result' = NoResult
    /\ UNCHANGED <<op, agent_runs>>

\* -------------------------------------------------------- run_automation
\* run_automation returns r to the caller
RunReturn(r) ==
    /\ ret' = r
    /\ pc' = "idle"
    /\ op' = "run_automation"
    /\ UNCHANGED <<caller, calls, input_value, session, agent_prompt, result,
                   agent_runs, instance_id_arg, instance_id, service>>

\* lines 462-465: the except clause of run_automation
RunRaise(message) ==
    /\ status' = "error"
    /\ LogAt(<<Entry("error", <<"Error in automation process: ", message>>)>>,
             "error")
    /\ RunReturn("run_failed")

\* lines 436-441
run_automation_after_init ==
    /\ pc = "run_after_init"
    /\ IF ret = "True"
       THEN /\ Goto("login_begin")
            /\ UNCHANGED <<status, session, log_entries, log_file, op, result,
                           agent_runs>>
       ELSE RunRaise("Failed to initialize Scrapybara")

\* lines 441-446
run_automation_after_login ==
    /\ pc = "run_after_login"
    /\ IF ret = "True"
       THEN /\ Goto("fill_begin")
            /\ UNCHANGED <<status, session, log_entries, log_file, op, result,
                           agent_runs>>
       ELSE RunRaise("Failed to login to the website")

\* lines 448-460 with the test of line 455 taken as "did not fail", so that
\* the pending-input result counts as success too
run_automation_after_fill_completing_on_pause ==
    /\ pc = "run_after_fill"
    /\ IF ret \in {"requires_input", "True"}
       THEN /\ status' = "completed"
            /\ LogAt(<<Entry("info", <<"Automation process completed successfully">>)>>,
                     "completed")
            /\ RunReturn("run_completed")
       ELSE /\ RunReturn("run_failed")
            /\ UNCHANGED <<status, log_entries, log_file>>

\* lines 448-460
run_automation_after_fill ==
    /\ pc = "run_after_fill"
    /\ IF ret = "requires_input"
       THEN /\ LogAt(<<Entry("info", <<"Automation paused waiting for human input">>)>>,
                     status)
            /\ RunReturn("run_waiting")
            /\ UNCHANGED status
       ELSE IF ret = "True"
       THEN /\ status' = "completed"
            /\ LogAt(<<Entry("info", <<"Automation process completed successfully">>)>>,
                     "completed")
            /\ RunReturn("run_completed")
       ELSE /\ RunReturn("run_failed")
            /\ UNCHANGED <<status, log_entries, log_file>>

\* --------------------------------------------------------------- cleanup
\* lines 469-471
cleanup_begin ==
    /\ pc = "cleanup_begin"
    /\ op' = "cleanup"
    /\ agent_runs' = 0
    /\ IF computer = "None"
       THEN /\ Return("None", "idle")
            /\ UNCHANGED <<log_entries, log_file>>
       ELSE /\ LogAt(<<Entry("info", <<"Stopping Scrapybara instance...">>)>>,
                     status)
            /\ Goto("cleanup_await")
    /\ UNCHANGED <<status, session, result>>

\* lines 472-473 without the except clause of lines 474-475: a failure of
\* the stop call leaves cleanup as an exception
cleanup_resume_unguarded ==
    /\ pc = "cleanup_await"
    /\ \/ /\ computer # "no_instance"
          /\ computer' = "stopped"
          /\ LogAt(<<Entry("info", <<"Scrapybara instance stopped">>)>>, status)
          /\ Return("None", "idle")
       \/ /\ computer' \in IF computer = "no_instance"
                           THEN {computer} ELSE {computer, "stopped"}
          /\ UNCHANGED <<log_entries, log_file>>
          /\ Return("raised", "idle")
    /\ UNCHANGED <<status, credentials, email_content, require_human_input,
                   human_input_prompt, human_input_field,
                   human_inputs_collected, instance_id_file, op, result,
                   agent_runs>>

\* lines 472-475 and AsyncScrapybaraUbuntu.stop: await self.instance.stop()
\* returns, or raises (always when there is no instance)
cleanup_resume ==
    /\ pc = "cleanup_await"
    /\ \/ /\ computer # "no_instance"
          /\ computer' = "stopped"
          /\ LogAt(<<Entry("info", <<"Scrapybara instance stopped">>)>>, status)
       \/ /\ computer' \in IF computer = "no_instance"
                           THEN {computer} ELSE {computer, "stopped"}
          /\ LogAt(<<Entry("error", <<"Error stopping Scrapybara: ",
                                      "stop failure">>)>>, status)
    /\ Return("None", "idle")
    /\ UNCHANGED <<status, credentials, email_content, require_human_input,
                   human_input_prompt, human_input_field,
                   human_inputs_collected, instance_id_file, op, result,
                   agent_runs>>

\* ------------------------------------------- AsyncScrapybaraUbuntu.initialize
\* the id under which an earlier run recorded its instance (instance_id.txt)
RecordedId == "recorded-id"

\* async_scrapybara_ubuntu_computer.py lines 68-93, on the instance_id that
\* initialize_scrapybara passes (line 128): the instance is fetched and
\* resumed when an id is set, started afresh when none is
AcquiredBy == IF instance_id # "None" THEN "resume" ELSE "start_ubuntu"

\* ------------------------------------------------------------ get_status
\* line 481: the number of log entries a status query returns at most
RecentEntries == 10

\* s[-n:] of a sequence longer than n
LastEntries(s, n) == SubSeq(s, Len(s) - n + 1, Len(s))

\* lines 477-492: the dict get_status returns, as a function of its keys; it
\* reads the session and assigns nothing
get_status ==
    LET status_info ==
            [status |-> status,
             log_entries |-> IF Len(log_entries) > RecentEntries
                             THEN LastEntries(log_entries, RecentEntries)
                             ELSE log_entries]
    IN  IF require_human_input
        THEN status_info @@ [require_human_input |-> TRUE,
                             human_input_prompt |-> human_input_prompt,
                             human_input_field |-> human_input_field]
        ELSE status_info

\* ------------------------------------------------------------------ spec
Next ==
    \/ call_initialize_scrapybara
    \/ call_login_with_agent
    \/ call_fill_applicant_form
    \/ call_provide_human_input
    \/ call_run_automation
    \/ call_cleanup
    \/ initialize_scrapybara_begin
    \/ initialize_scrapybara_resume
    \/ login_with_agent_begin
    \/ AgentReturns
    \/ login_with_agent_resume
    \/ fill_applicant_form_begin
    \/ fill_applicant_form_resume
    \/ provide_human_input_rejected
    \/ provide_human_input_begin
    \/ provide_human_input_resume
    \/ run_automation_after_init
    \/ run_automation_after_login
    \/ run_automation_after_fill
    \/ cleanup_begin
    \/ cleanup_resume

Spec == Init /\ [][Next]_vars

\* the same session, constructed with or without a recorded instance id
ResumeInit == Constructed /\ instance_id_arg \in {"None", RecordedId}

SpecResume == ResumeInit /\ [][Next]_vars

\* --------------------------------------------------- parsing specification
\* The marker protocol on every agent output of up to MaxLen tokens: the
\* session stands where Runner.run has just returned in fill_applicant_form
\* or in provide_human_input, and the method runs to its end.
ParseAlphabet == {Marker, Dash, " ", "a", "b"}

Texts(n) == UNION { [1..k -> ParseAlphabet] : k \in 0..n }

ParseResults ==
    { [kind |-> "ok", final_output |-> o, pending_safety_checks |-> p,
       message |-> EmptyStr] : o \in Texts(MaxLen), p \in BOOLEAN }

\* the log after initialize_scrapybara and login_with_agent have succeeded
\* and fill_applicant_form has called the agent
LogToFill ==
    << Entry("info", <<"Initializing Scrapybara instance...">>),
       Entry("info", <<"Using Scrapybara Instance ID: ", "id">>),
       Entry("info", <<"Scrapybara instance initialized successfully">>),
       Entry("info", <<"Starting login process with OpenAI Agent...">>),
       Entry("info", <<"Agent initialized, starting login process...">>),
       Entry("info", <<"Agent completed login: ", "Form submitted successfully.">>),
       Entry("info", <<"Login successful">>),
       Entry("info", <<"Starting form filling process with OpenAI Agent...">>),
       Entry("info", <<"Agent initialized, starting form filling process...">>) >>

\* the log after run_automation has paused for the field Industry and
\* provide_human_input("Plumbing") has called the agent
LogToProvide ==
    LogToFill \o
    << Entry("info", <<"Screenshot saved to ", "screenshots/form_input_needed.png">>),
       Entry("warn", <<"Human input required for field: ", "Industry">>),
       Entry("warn", <<"Explanation: ", "no industry mentioned">>),
       Entry("info", <<"Automation paused waiting for human input">>),
       Entry("info", <<"Received human input for ", "Industry", ": ", "Plumbing">>),
       Entry("info", <<"Agent continuing form filling with human input...">>) >>

\* initialize_scrapybara(), login_with_agent() and fill_applicant_form() were
\* called in turn and the agent of the last has returned r
AtFillResumed(r) ==
    /\ status = "filling_form"
    /\ computer = "running"
    /\ credentials = [destination_url |-> Url, username |-> User, password |-> Pass]
    /\ email_content = [body |-> Body]
    /\ require_human_input = FALSE
    /\ human_input_prompt = EmptyStr
    /\ human_input_field = EmptyStr
    /\ human_inputs_collected = << >>
    /\ log_entries = LogToFill
    /\ log_file = <<SaveLog("filling_form", LogToFill, FALSE, EmptyStr, EmptyStr)>>
    /\ instance_id_file = "written"
    /\ pc = "fill_resumed"
    /\ caller = "api"
    /\ op = "fill_applicant_form"
    /\ input_value = EmptyStr
    /\ agent_prompt = FillPrompt(Body)
    /\ result = r
    /\ ret = "True"
    /\ agent_runs = 1
    /\ calls = 3
    /\ instance_id_arg = "None"
    /\ instance_id = "None"

\* run_automation() paused for the field Industry, provide_human_input
\* ("Plumbing") was called and its agent has returned r
AtProvideResumed(r) ==
    /\ status = "filling_form"
    /\ computer = "running"
    /\ credentials = [destination_url |-> Url, username |-> User, password |-> Pass]
    /\ email_content = [body |-> Body]
    /\ require_human_input = FALSE
    /\ human_input_prompt =
           PromptFor(<<"Industry">>, <<"no industry mentioned">>)
    /\ human_input_field = <<"Industry">>
    /\ human_inputs_collected = <<[field |-> <<"Industry">>, value |-> <<"Plumbing">>]>>
    /\ log_entries = LogToProvide
    /\ log_file = <<SaveLog("filling_form", LogToProvide, FALSE,
                             human_input_prompt, human_input_field)>>
    /\ instance_id_file = "written"
    /\ pc = "provide_resumed"
    /\ caller = "api"
    /\ op = "provide_human_input"
    /\ input_value = <<"Plumbing">>
    /\ agent_prompt = ContinuationPrompt(Body, human_inputs_collected)
    /\ result = r
    /\ ret = "run_waiting"
    /\ agent_runs = 1
    /\ calls = 2
    /\ instance_id_arg = "None"
    /\ instance_id = "None"

ParseInit ==
    /\ \E r \in ParseResults : AtFillResumed(r) \/ AtProvideResumed(r)
    /\ NoService

ParseNext == fill_applicant_form_resume \/ provide_human_input_resume

SpecParse == ParseInit /\ [][ParseNext]_vars

\* --------------------------------------------------------- service steps
\* what the form agent's return makes of the instance (AfterAgent)
FormOutcomes == {"raise", "checks", "marker", "plain"}

AfterFormAgent(me, outcome) ==
    CASE outcome \in {"raise", "checks"} -> [me EXCEPT !.status = "error"]
      [] outcome = "marker" -> [me EXCEPT !.status = "waiting_for_input",
                                          !.require_human_input = TRUE]
      [] outcome = "plain" -> [me EXCEPT !.status = "form_filled"]

\* app.py lines 113-128
start_automation ==
    /\ Received
    /\ IF /\ automation_instance # 0
          /\ instances[automation_instance].status
                \notin {"error", "completed", "waiting_for_input"}
       THEN /\ Respond(400, "Automation is already running")
            /\ UNCHANGED tasks
       ELSE /\ tasks' = Append(tasks, Task("run", "scheduled", 0))
            /\ Respond(200, "")
    /\ UNCHANGED <<automation_instance, instances, orchestrator>>

\* app.py lines 95-111 up to the first await: the constructor, then
\* run_automation and initialize_scrapybara up to await
\* self.computer.initialize(); or the constructor raises and the except clause
\* cleans up the instance the global still names
run_automation_task_begin ==
    \E t \in DOMAIN tasks :
       /\ tasks[t].kind = "run" /\ tasks[t].pc = "scheduled"
       /\ \/ \E has_credentials, has_body \in BOOLEAN :
                LET i == Len(instances) + 1
                    me == NewInstance(has_credentials, has_body)
                IN  /\ automation_instance' = i
                    /\ \/ /\ instances' = Append(instances,
                                 [me EXCEPT !.status = "initializing",
                                            !.computer = "no_instance"])
                          /\ tasks' = [tasks EXCEPT ![t] = Task("run", "init_await", i)]
                       \/ \* AsyncScrapybaraUbuntu(...) raises
                          /\ instances' = Append(instances,
                                 [me EXCEPT !.status = "error"])
                          /\ tasks' = Finished(t)
          \/ /\ UNCHANGED automation_instance
             /\ IF /\ automation_instance # 0
                   /\ instances[automation_instance].computer # "None"
                THEN /\ instances' = [instances EXCEPT
                            ![automation_instance].stop_calls = @ + 1]
                     /\ tasks' = [tasks EXCEPT ![t] =
                            Task("run", "cleanup_await", automation_instance)]
                ELSE /\ UNCHANGED instances
                     /\ tasks' = Finished(t)
       /\ UNCHANGED <<requests, response, orchestrator>>

\* scrapybara_automation.py lines 131-154, 436-441, 158-200: initialize()
\* returns and login_with_agent runs up to its agent call, or one of them
\* fails and run_automation ends in its except clause
run_automation_task_initialized ==
    \E t \in DOMAIN tasks :
       /\ tasks[t].kind = "run" /\ tasks[t].pc = "init_await"
       /\ LET i == tasks[t].inst
              me == instances[i]
          IN  \/ /\ me.has_credentials
                 /\ instances' = [instances EXCEPT ![i] =
                        [me EXCEPT !.computer = "running", !.status = "logging_in"]]
                 /\ tasks' = [tasks EXCEPT ![t].pc = "login_await"]
              \/ /\ ~me.has_credentials
                 /\ instances' = [instances EXCEPT ![i] =
                        [me EXCEPT !.computer = "running", !.status = "error"]]
                 /\ tasks' = Finished(t)
              \/ \E c \in {"no_instance", "running"} :
                    /\ instances' = [instances EXCEPT ![i] =
                           [me EXCEPT !.computer = c, !.status = "error"]]
                    /\ tasks' = Finished(t)
       /\ UNCHANGED <<automation_instance, requests, response, orchestrator>>

\* scrapybara_automation.py lines 203-216, 441-448, 220-272: the login agent
\* returns and fill_applicant_form runs up to its agent call; without an
\* email body it returns False and run_automation returns its failure result
\* with status left at logged_in
run_automation_task_logged_in ==
    \E t \in DOMAIN tasks :
       /\ tasks[t].kind = "run" /\ tasks[t].pc = "login_await"
       /\ LET i == tasks[t].inst
              me == instances[i]
          IN  \/ /\ me.has_body
                 /\ instances' = [instances EXCEPT ![i].status = "filling_form"]
                 /\ tasks' = [tasks EXCEPT ![t].pc = "fill_await"]
              \/ /\ ~me.has_body
                 /\ instances' = [instances EXCEPT ![i].status = "logged_in"]
                 /\ tasks' = Finished(t)
              \/ \* Runner.run raises
                 /\ instances' = [instances EXCEPT ![i].status = "error"]
                 /\ tasks' = Finished(t)
       /\ UNCHANGED <<automation_instance, requests, response, orchestrator>>

\* scrapybara_automation.py lines 277-323, 448-465: the form agent returns and
\* run_automation returns; app.py line 106 returns with it
run_automation_task_filled ==
    \E t \in DOMAIN tasks :
       /\ tasks[t].kind = "run" /\ tasks[t].pc = "fill_await"
       /\ \E outcome \in FormOutcomes :
             LET i == tasks[t].inst
                 after == AfterFormAgent(instances[i], outcome)
             IN  instances' = [instances EXCEPT ![i] =
                     IF after.status = "form_filled"
                     THEN [after EXCEPT !.status = "completed"]
                     ELSE after]
       /\ tasks' = Finished(t)
       /\ UNCHANGED <<automation_instance, requests, response, orchestrator>>

\* faulty variant: the status is left for the agent's return to change
provide_input_status_after_agent ==
    /\ Received
    /\ \E has_value \in BOOLEAN :
          IF automation_instance = 0
          THEN /\ Respond(404, "No automation has been started")
               /\ UNCHANGED <<instances, tasks>>
          ELSE IF instances[automation_instance].status # "waiting_for_input"
          THEN /\ Respond(400, "Automation is not waiting for input")
               /\ UNCHANGED <<instances, tasks>>
          ELSE IF ~has_value
          THEN /\ Respond(400, "No input value provided")
               /\ UNCHANGED <<instances, tasks>>
          ELSE /\ instances' = [instances EXCEPT ![automation_instance] =
                      [@ EXCEPT !.human_inputs_collected = @ + 1,
                                !.require_human_input = FALSE]]
               /\ tasks' = Append(tasks,
                      Task("provide", "provide_await", automation_instance))
               /\ UNCHANGED response
    /\ UNCHANGED <<automation_instance, orchestrator>>

\* app.py lines 130-163 and scrapybara_automation.py lines 327-382: the
\* request is answered 404 or 400, or provide_human_input runs up to its agent
\* call
provide_input ==
    /\ Received
    /\ \E has_value \in BOOLEAN :
          IF automation_instance = 0
          THEN /\ Respond(404, "No automation has been started")
               /\ UNCHANGED <<instances, tasks>>
          ELSE IF instances[automation_instance].status # "waiting_for_input"
          THEN /\ Respond(400, "Automation is not waiting for input")
               /\ UNCHANGED <<instances, tasks>>
          ELSE IF ~has_value
          THEN /\ Respond(400, "No input value provided")
               /\ UNCHANGED <<instances, tasks>>
          ELSE /\ instances' = [instances EXCEPT ![automation_instance] =
                      [@ EXCEPT !.human_inputs_collected = @ + 1,
                                !.require_human_input = FALSE,
                                !.status = "filling_form"]]
               /\ tasks' = Append(tasks,
                      Task("provide", "provide_await", automation_instance))
               /\ UNCHANGED response
    /\ UNCHANGED <<automation_instance, orchestrator>>

\* faulty variant: a finished continuation completes the run, as
\* run_automation does
provide_input_resumed_completing ==
    \E t \in DOMAIN tasks :
       /\ tasks[t].kind = "provide" /\ tasks[t].pc = "provide_await"
       /\ \E outcome \in FormOutcomes :
             LET after == AfterFormAgent(instances[tasks[t].inst], outcome)
             IN  instances' = [instances EXCEPT ![tasks[t].inst] =
                     IF after.status = "form_filled"
                     THEN [after EXCEPT !.status = "completed"]
                     ELSE after]
       /\ tasks' = Finished(t)
       /\ Respond(200, "")
       /\ UNCHANGED <<automation_instance, requests, orchestrator>>

\* scrapybara_automation.py lines 384-430 and app.py lines 163-173: the agent
\* returns, provide_human_input returns a dict and the request is answered
provide_input_resumed ==
    \E t \in DOMAIN tasks :
       /\ tasks[t].kind = "provide" /\ tasks[t].pc = "provide_await"
       /\ \E outcome \in FormOutcomes :
             instances' = [instances EXCEPT ![tasks[t].inst] =
                              AfterFormAgent(@, outcome)]
       /\ tasks' = Finished(t)
       /\ Respond(200, "")
       /\ UNCHANGED <<automation_instance, requests, orchestrator>>

\* app.py lines 202-214 with a cleanup that cancels the coroutines working on
\* the instance before it stops the session
stop_automation_cancelling ==
    /\ Received
    /\ IF automation_instance = 0
       THEN /\ Respond(404, "No automation has been started")
            /\ UNCHANGED <<instances, tasks>>
       ELSE IF instances[automation_instance].computer = "None"
       THEN Respond(200, "") /\ UNCHANGED <<instances, tasks>>
       ELSE /\ instances' = [instances EXCEPT
                   ![automation_instance].stop_calls = @ + 1]
            /\ tasks' = Append(
                   SelectSeq(tasks, LAMBDA x : x.inst # automation_instance),
                   Task("stop", "cleanup_await", automation_instance))
            /\ UNCHANGED response
    /\ UNCHANGED <<automation_instance, orchestrator>>

\* app.py lines 202-214 and scrapybara_automation.py lines 467-472: 404, or
\* cleanup up to await self.computer.stop()
stop_automation ==
    /\ Received
    /\ IF automation_instance = 0
       THEN /\ Respond(404, "No automation has been started")
            /\ UNCHANGED <<instances, tasks>>
       ELSE IF instances[automation_instance].computer = "None"
       THEN Respond(200, "") /\ UNCHANGED <<instances, tasks>>
       ELSE /\ instances' = [instances EXCEPT
                   ![automation_instance].stop_calls = @ + 1]
            /\ tasks' = Append(tasks,
                   Task("stop", "cleanup_await", automation_instance))
            /\ UNCHANGED response
    /\ UNCHANGED <<automation_instance, orchestrator>>

\* scrapybara_automation.py lines 472-475: the stop call returns or raises
\* (always when the session has no instance), and cleanup returns to
\* /stop-automation (app.py line 215) or to the background task (line 111)
cleanup_returns ==
    \E t \in DOMAIN tasks :
       /\ tasks[t].pc = "cleanup_await"
       /\ LET i == tasks[t].inst
          IN  \E c \in IF instances[i].computer = "no_instance"
                       THEN {"no_instance"}
                       ELSE {instances[i].computer, "stopped"} :
                 instances' = [instances EXCEPT ![i].computer = c]
       /\ tasks' = Finished(t)
       /\ IF tasks[t].kind = "stop" THEN Respond(200, "") ELSE UNCHANGED response
       /\ UNCHANGED <<automation_instance, requests, orchestrator>>

\* the service starts with no instance; the session of Spec stays as
\* constructed
ServiceInit ==
    /\ Init
    /\ HasCredentials /\ email_content.body = Body /\ log_entries = << >>

ServiceNext ==
    \/ start_automation
    \/ run_automation_task_begin
    \/ run_automation_task_initialized
    \/ run_automation_task_logged_in
    \/ run_automation_task_filled
    \/ provide_input
    \/ provide_input_resumed
    \/ stop_automation
    \/ cleanup_returns

SpecService == ServiceInit /\ [][ServiceNext]_vars

\* ================================================================ claims
\* no method is in progress: the last call has returned
Returned == pc = "idle"

\* C1: after every orchestrator operation returns, in any sequence of calls,
\* require_human_input is true if and only if status = waiting_for_input.
C1_PendingIffWaiting ==
    Returned => (require_human_input <=> status = "waiting_for_input")

\* C2: error and completed are terminal: once status is one of them, no step
\* of any operation changes status.
C2_TerminalStatuses ==
    [][(status \in {"error", "completed"}) => (status' = status)]_vars

\* the state graph of the specification, in the status names of the code
\* (the ready state is "initialized" again)
NonTerminal ==
    {"initialized", "initializing", "logging_in", "logged_in", "filling_form",
     "waiting_for_input", "form_filled"}

StateGraph ==
    { <<"initialized", "initializing">>, <<"initializing", "initialized">>,
      <<"initialized", "logging_in">>, <<"logging_in", "logged_in">>,
      <<"logged_in", "filling_form">>, <<"filling_form", "waiting_for_input">>,
      <<"waiting_for_input", "filling_form">>, <<"filling_form", "form_filled">>,
      <<"form_filled", "completed">> }
    \cup { <<s, "error">> : s \in NonTerminal }

\* C3: for every sequence of operation calls, each change of status is an
\* edge of the state graph.
C3_OnlyGraphEdges ==
    [][(status' # status) => (<<status, status'>> \in StateGraph)]_vars

\* provide_human_input is entered while status is not waiting_for_input
ProvideWhileNotWaiting ==
    pc = "provide_begin" /\ status # "waiting_for_input"

\* C4 (as claimed): provide_human_input called when status is not
\* waiting_for_input returns a failure, invokes no agent and leaves status,
\* the pending request, collectedInputs and the log entries as they were.
C4_RejectionChangesNothing ==
    [][ProvideWhileNotWaiting =>
          /\ pc' = "idle" /\ ret' = "False" /\ agent_runs' = 0
          /\ UNCHANGED <<status, require_human_input, human_input_prompt,
                         human_input_field, human_inputs_collected>>
          /\ log_entries' = log_entries]_vars

\* C4 (amended): provide_human_input called when status is not
\* waiting_for_input returns a failure, invokes no agent, leaves status, the
\* pending request and collectedInputs as they were and appends exactly one
\* entry, of level error, to the log.
C4_RejectionOnlyLogs ==
    [][ProvideWhileNotWaiting =>
          /\ pc' = "idle" /\ ret' = "False" /\ agent_runs' = 0
          /\ UNCHANGED <<status, require_human_input, human_input_prompt,
                         human_input_field, human_inputs_collected>>
          /\ Len(log_entries') = Len(log_entries) + 1
          /\ SubSeq(log_entries', 1, Len(log_entries)) = log_entries
          /\ log_entries'[Len(log_entries')].level = "error"]_vars

\* C4 witness: a rejected provide_human_input has returned in a session that
\* had collected an input and has a request on record
C4_Witness ==
    /\ Returned /\ op = "provide_human_input" /\ ret = "False"
    /\ status # "waiting_for_input"
    /\ human_inputs_collected # << >>

\* C5: provide_human_input(value) with status = waiting_for_input and pending
\* field F has, before the agent is invoked, collectedInputs[F] = value, the
\* pending request cleared (flag, field name and prompt text) and
\* status = filling_form.
C5_InputStoredRequestCleared ==
    [][(pc = "provide_begin" /\ status = "waiting_for_input") =>
          /\ pc' = "provide_await"
          /\ DictHas(human_inputs_collected', human_input_field)
          /\ DictGet(human_inputs_collected', human_input_field) = input_value
          /\ require_human_input' = FALSE
          /\ human_input_field' = EmptyStr
          /\ human_input_prompt' = EmptyStr
          /\ log_file'[1].human_input_field = EmptyStr
          /\ log_file'[1].human_input_prompt = EmptyStr
          /\ status' = "filling_form"]_vars

\* the agent call of fill_applicant_form or provide_human_input has returned
\* a result
FormAgentReturned ==
    pc \in {"fill_resumed", "provide_resumed"} /\ result.kind = "ok"

\* C6: when the agent call of fill_applicant_form or provide_human_input
\* returns normally the marker alone decides: with the marker in the final
\* output the operation returns a needs-input result and status becomes
\* waiting_for_input with the parsed field pending, without it status becomes
\* form_filled and the operation returns success.
C6_MarkerDecides ==
    [][FormAgentReturned =>
          IF Contains(result.final_output, Marker)
          THEN /\ ret' = "requires_input"
               /\ status' = "waiting_for_input"
               /\ require_human_input'
               /\ human_input_field' = ParseFieldName(result.final_output)
          ELSE /\ ret' \in {"True", "success_dict"}
               /\ status' = "form_filled"]_vars

\* C8: login_with_agent on a ready session with the URL, the username or the
\* password missing returns failure without invoking the agent, and status
\* becomes error.
C8_MissingCredentialsIsError ==
    [][(pc = "login_begin" /\ status = "initialized" /\ computer = "running"
            /\ ~HasCredentials) =>
          (ret' = "False" /\ agent_runs' = 0 /\ status' = "error")]_vars

\* C9: fill_applicant_form with status = logged_in and an empty or absent
\* email body returns failure without invoking the agent, and status becomes
\* error.
C9_MissingBodyIsError ==
    [][(pc = "fill_begin" /\ status = "logged_in" /\ computer # "None"
            /\ email_content.body = EmptyStr) =>
          (ret' = "False" /\ agent_runs' = 0 /\ status' = "error")]_vars

\* C10: whenever run_automation returns a result with success = false,
\* status is error.
C10_RunFailureIsError ==
    (Returned /\ op = "run_automation" /\ ret = "run_failed")
        => status = "error"

\* the text of s before, and after, its first token tok (all of s, and
\* nothing, when s has none)
BeforeFirst(s, tok) ==
    IF Contains(s, tok)
    THEN SubSeq(s, 1, (CHOOSE k \in 1..Len(s) :
                          s[k] = tok /\ \A j \in 1..(k - 1) : s[j] # tok) - 1)
    ELSE s

AfterFirst(s, tok) ==
    IF Contains(s, tok)
    THEN SubSeq(s, (CHOOSE k \in 1..Len(s) :
                       s[k] = tok /\ \A j \in 1..(k - 1) : s[j] # tok) + 1, Len(s))
    ELSE EmptyStr

\* the split rule applied to the remainder rem of the output
FieldOf(rem) == Strip(BeforeFirst(rem, Dash))

ExplanationOf(rem) == Strip(AfterFirst(rem, Dash))

\* the request an output with remainder rem must leave pending
PendingIs(rem) ==
    /\ human_input_field' = FieldOf(rem)
    /\ human_input_prompt' = PromptFor(FieldOf(rem), ExplanationOf(rem))
    /\ log_entries'[Len(log_entries')].message
           = <<"Explanation: ">> \o ExplanationOf(rem)

\* fill_applicant_form or provide_human_input goes on to parse an output
\* with the marker (lines 286 and 393 are reached with the marker present)
OutputParsed ==
    /\ FormAgentReturned
    /\ ~result.pending_safety_checks
    /\ Contains(result.final_output, Marker)

\* the example of the claim
ExampleParses ==
    /\ ParseFieldName(BusinessAddressOutput) = <<"Business Address">>
    /\ ParseExplanation(BusinessAddressOutput) = <<"Not present in the email text">>

\* C7 (as claimed): for every agent output that contains the marker (and is
\* parsed), the text after the marker is split on the first dash: fieldName is the trimmed text
\* before it, explanation the trimmed text after it with later dashes kept,
\* and the pending prompt is "Please provide value for: " + fieldName +
\* newline + explanation.
C7_SplitOfTextAfterMarker ==
    [][OutputParsed =>
          /\ PendingIs(AfterFirst(result.final_output, Marker))
          /\ ExampleParses]_vars

\* C7 (amended): for every agent output that contains the marker (and is
\* parsed), the text between the first marker and the next occurrence of the marker (the end of
\* the output when there is none) is split on the first dash: fieldName is the
\* trimmed text before it, explanation the trimmed text after it with later
\* dashes kept, and the pending prompt is "Please provide value for: " +
\* fieldName + newline + explanation.
C7_SplitOfTextUpToNextMarker ==
    [][OutputParsed =>
          /\ PendingIs(BeforeFirst(AfterFirst(result.final_output, Marker), Marker))
          /\ ExampleParses]_vars

\* C7 witness: provide_human_input has parsed an output with a second dash,
\* and the dash is in the prompt
C7_Witness ==
    /\ Returned /\ status = "waiting_for_input"
    /\ op = "provide_human_input"
    /\ human_input_field = <<"a">>
    /\ human_input_prompt = PromptFor(<<"a">>, <<Dash, "b">>)

\* ------------------------------------------------------------------- C11
\* C11: run_automation runs initialize_scrapybara, login_with_agent and
\* fill_applicant_form in that order, each step entered only after the
\* previous one returned success.  When fill_applicant_form returns the
\* pending-input result, run_automation returns the awaiting-input outcome
\* with status waiting_for_input and does not set completed; when it returns
\* success, status becomes completed.  Status never becomes completed except
\* in run_automation after fill_applicant_form returned success.
C11_RunOrderAndCompletion ==
    [][/\ (caller' = "run" /\ pc' = "init_begin")
              => (pc = "idle" /\ op' = "run_automation")
       /\ (caller' = "run" /\ pc' = "login_begin")
              => (pc = "run_after_init" /\ ret = "True")
       /\ (caller' = "run" /\ pc' = "fill_begin")
              => (pc = "run_after_login" /\ ret = "True")
       /\ (pc = "run_after_fill" /\ ret = "requires_input")
              => /\ pc' = "idle" /\ ret' = "run_waiting"
                 /\ status = "waiting_for_input"
                 /\ status' = "waiting_for_input"
       /\ (pc = "run_after_fill" /\ ret = "True")
              => (pc' = "idle" /\ ret' = "run_completed"
                  /\ status' = "completed")
       /\ (status' = "completed" /\ status # "completed")
              => (pc = "run_after_fill" /\ ret = "True")]_vars

\* C11 witness: run_automation has returned the awaiting-input outcome
C11_Witness ==
    /\ Returned /\ op = "run_automation" /\ ret = "run_waiting"
    /\ status = "waiting_for_input"

\* ------------------------------------------------------------------- C12
\* an agent invocation of login_with_agent, fill_applicant_form or
\* provide_human_input has raised
AgentRaised ==
    /\ pc \in {"login_resumed", "fill_resumed", "provide_resumed"}
    /\ result.kind = "raise"

\* the last log entry is at error level and ends with the message
ErrorLoggedWith(entries, message) ==
    /\ Len(entries) > 0
    /\ entries[Len(entries)].level = "error"
    /\ LET m == entries[Len(entries)].message
       IN  /\ Len(m) >= Len(message)
           /\ SubSeq(m, Len(m) - Len(message) + 1, Len(m)) = message

\* C12: when the agent invocation raises during login_with_agent,
\* fill_applicant_form or provide_human_input, the exception does not leave
\* the method: the method returns a failure result, status becomes error, and
\* an error-level log entry that contains the exception's message is appended.
C12_AgentExceptionIsCaught ==
    [][AgentRaised =>
          /\ pc' = IF caller = "run"
                   THEN (IF pc = "login_resumed" THEN "run_after_login"
                                                 ELSE "run_after_fill")
                   ELSE "idle"
          /\ ret' = IF pc = "provide_resumed" THEN "failure_dict" ELSE "False"
          /\ status' = "error"
          /\ Len(log_entries') = Len(log_entries) + 1
          /\ ErrorLoggedWith(log_entries', result.message)
          /\ log_file'[1].status = "error"]_vars

\* C12 witness: provide_human_input has returned its failure result after the
\* agent raised
C12_Witness ==
    /\ Returned /\ op = "provide_human_input" /\ ret = "failure_dict"
    /\ status = "error"
    /\ ErrorLoggedWith(log_entries, <<"agent failure">>)

\* ------------------------------------------------------------------- C13
\* C13: initialize_scrapybara never raises.  When acquiring the remote session
\* fails it returns failure with status error and an error-level log entry;
\* when it succeeds it returns success with status initialized and the
\* instance identifier written to its file.
C13_InitializeNeverRaises ==
    [][/\ pc = "init_begin" => (pc' = "init_await" /\ status' = "initializing")
       /\ pc = "init_await" =>
             /\ pc' = IF caller = "run" THEN "run_after_init" ELSE "idle"
             /\ \/ /\ ret' = "True"
                   /\ status' = "initialized"
                   /\ computer' = "running"
                   /\ instance_id_file' = "written"
                \/ /\ ret' = "False"
                   /\ status' = "error"
                   /\ Len(log_entries') = Len(log_entries) + 1
                   /\ log_entries'[Len(log_entries')].level = "error"]_vars

\* C13 witness: initialize_scrapybara has returned failure, the session object
\* left without an instance
C13_Witness ==
    /\ Returned /\ op = "initialize_scrapybara" /\ ret = "False"
    /\ status = "error" /\ computer = "no_instance"
    /\ log_entries[Len(log_entries)].level = "error"

\* ------------------------------------------------------------------- C14
\* C14: cleanup is safe in every state and idempotent: it can always run to
\* its end, it returns normally (None) also when the stop call fails, when
\* there is no instance to stop and when the session was stopped before, it
\* changes neither status nor the pending request nor the collected inputs,
\* and a failure of the stop call is logged at error level instead of being
\* raised.
C14_CleanupNeverRaises ==
    /\ [](pc \in {"cleanup_begin", "cleanup_await"}
             => ENABLED (cleanup_begin \/ cleanup_resume))
    /\ [][/\ pc = "cleanup_begin" =>
                IF computer = "None"
                THEN pc' = "idle" /\ ret' = "None"
                     /\ UNCHANGED <<status, session, log_entries>>
                ELSE pc' = "cleanup_await" /\ UNCHANGED <<status, session>>
          /\ pc = "cleanup_await" =>
                /\ pc' = "idle" /\ ret' = "None"
                /\ UNCHANGED <<status, require_human_input, human_input_prompt,
                               human_input_field, human_inputs_collected>>
                /\ Len(log_entries') = Len(log_entries) + 1
                /\ LET last == log_entries'[Len(log_entries')]
                   IN  /\ \/ /\ last.level = "info"
                             /\ computer # "no_instance"
                             /\ computer' = "stopped"
                          \/ /\ last.level = "error"
                             /\ computer' \in {computer, "stopped"}
                       /\ computer = "no_instance" => last.level = "error"]_vars

\* C14 witness: a second cleanup has returned after the stop call failed on a
\* session that an earlier cleanup had stopped
C14_Witness ==
    /\ Returned /\ op = "cleanup" /\ ret = "None" /\ computer = "stopped"
    /\ log_entries[Len(log_entries)].level = "error"
    /\ \E i \in 1..Len(log_entries) :
          log_entries[i].message = <<"Scrapybara instance stopped">>

\* ------------------------------------------------------------------- C15
\* C15: get_status has no side effects on the session (it is a function of the
\* session's fields) and returns the current status, at most 10 log entries
\* which are exactly the most recent entries of the log in order, and the
\* pending field name and prompt text if and only if status =
\* waiting_for_input.
C15_StatusSnapshot ==
    Returned =>
        LET info == get_status
            n == Len(info.log_entries)
        IN  /\ info.status = status
            /\ n <= 10
            /\ n = IF Len(log_entries) < 10 THEN Len(log_entries) ELSE 10
            /\ \A i \in 1..n :
                  info.log_entries[i] = log_entries[Len(log_entries) - n + i]
            /\ "human_input_field" \in DOMAIN info
                  <=> status = "waiting_for_input"
            /\ "human_input_prompt" \in DOMAIN info
                  <=> status = "waiting_for_input"
            /\ "human_input_field" \in DOMAIN info
                  => /\ info.human_input_field = human_input_field
                     /\ info.human_input_prompt = human_input_prompt

\* the part of C15 that does not depend on the pending request: status and
\* the recent log entries of a log longer than 10 entries
C15_RecentLogEntries ==
    Returned =>
        LET info == get_status
            n == Len(info.log_entries)
        IN  /\ info.status = status
            /\ n = IF Len(log_entries) < 10 THEN Len(log_entries) ELSE 10
            /\ \A i \in 1..n :
                  info.log_entries[i] = log_entries[Len(log_entries) - n + i]
            /\ "human_input_field" \in DOMAIN info <=> require_human_input

\* ------------------------------------------------------------------- C16
\* C16: human_inputs_collected only grows within a session: no step removes a
\* key or changes the value of another key, and a step that changes the dict
\* is the accepting step of provide_human_input (status waiting_for_input, a
\* request pending), which stores the call's value under the pending
\* request's field name.
C16_CollectedInputsOnlyGrow ==
    [][/\ \A i \in 1..Len(human_inputs_collected) :
             DictHas(human_inputs_collected', human_inputs_collected[i].field)
       /\ human_inputs_collected' # human_inputs_collected =>
             /\ pc = "provide_begin" /\ op' = "provide_human_input"
             /\ status = "waiting_for_input" /\ require_human_input
             /\ input_value \in InputValues
             /\ DictHas(human_inputs_collected', human_input_field)
             /\ DictGet(human_inputs_collected', human_input_field) = input_value
             /\ \A i \in 1..Len(human_inputs_collected') :
                   LET k == human_inputs_collected'[i].field
                   IN  k # human_input_field =>
                          /\ DictHas(human_inputs_collected, k)
                          /\ DictGet(human_inputs_collected', k)
                                = DictGet(human_inputs_collected, k)]_vars

\* C16 witness: two values were provided for two different fields
C16_Witness ==
    /\ Returned /\ op = "provide_human_input"
    /\ Len(human_inputs_collected) = 2
    /\ DictHas(human_inputs_collected, <<"Industry">>)
    /\ DictHas(human_inputs_collected, <<"Business Address">>)

\* ------------------------------------------------------------------- C17
\* the log of the scenario: run_automation paused for Industry,
\* provide_human_input("Plumbing") ran and its agent returned without the
\* marker
ScenarioLog ==
    LogToProvide \o
    << Entry("info", <<"Form filled successfully with human input">>),
       Entry("info", <<"Agent output: ", "Form submitted successfully.">>) >>

\* the agent has returned normally, with nothing for the retry to do
AgentReturnedPlainly(at) ==
    pc = at /\ result.kind = "ok" /\ ~result.pending_safety_checks

\* C17: end-to-end scenario.  With complete credentials and a non-empty email
\* body, initialize, login and fill run in order: login and fill pass their
\* guards and invoke their agent.  When the fill agent's output contains
\* "HUMAN_INPUT_REQUIRED: Industry - no industry mentioned", status becomes
\* waiting_for_input with pending field "Industry".  provide_human_input
\* ("Plumbing") then stores {Industry: Plumbing}, and when its agent returns an
\* output without the marker the final status is form_filled with the
\* collected inputs unchanged: the session whose log is the scenario's ends
\* with status form_filled and human_inputs_collected = {Industry: Plumbing}.
C17_EndToEndScenario ==
    /\ []((Returned /\ log_entries = ScenarioLog) =>
             /\ status = "form_filled"
             /\ ~require_human_input
             /\ human_inputs_collected =
                    <<[field |-> <<"Industry">>, value |-> <<"Plumbing">>]>>)
    /\ [][/\ (pc = "login_begin" /\ computer # "None" /\ HasCredentials)
                => (pc' = "login_await" /\ status' = "logging_in")
          /\ (AgentReturnedPlainly("login_resumed"))
                => (status' = "logged_in" /\ ret' = "True")
          /\ (pc = "fill_begin" /\ computer # "None" /\ status = "logged_in"
                 /\ email_content.body # EmptyStr)
                => (pc' = "fill_await" /\ status' = "filling_form")
          /\ (AgentReturnedPlainly("fill_resumed")
                 /\ result.final_output = IndustryOutput)
                => /\ status' = "waiting_for_input"
                   /\ require_human_input'
                   /\ human_input_field' = <<"Industry">>
                   /\ ret' = "requires_input"
          /\ (pc = "provide_begin" /\ computer # "None"
                 /\ status = "waiting_for_input"
                 /\ human_input_field = <<"Industry">>
                 /\ input_value = <<"Plumbing">>
                 /\ human_inputs_collected = << >>)
                => /\ pc' = "provide_await"
                   /\ human_inputs_collected' =
                          <<[field |-> <<"Industry">>, value |-> <<"Plumbing">>]>>
          /\ (AgentReturnedPlainly("provide_resumed")
                 /\ ~Contains(result.final_output, Marker))
                => /\ status' = "form_filled"
                   /\ ret' = "success_dict"
                   /\ UNCHANGED human_inputs_collected]_vars

\* C17 witness: the scenario has run to its end
C17_Witness ==
    /\ Returned /\ op = "provide_human_input" /\ ret = "success_dict"
    /\ log_entries = ScenarioLog
    /\ status = "form_filled"
    /\ DictGet(human_inputs_collected, <<"Industry">>) = <<"Plumbing">>

\* ------------------------------------------------------------------- C18
\* C18: when the agent result of fill_applicant_form or provide_human_input
\* carries pending safety checks, the agent is invoked again, once, with the
\* checks acknowledged (the method is back at its agent call, the second of
\* the operation), and status does not become error because of it; the agent
\* is invoked at most twice per operation.
C18_SafetyCheckRetry ==
    [][/\ agent_runs' <= 2
       /\ (FormAgentReturned /\ result.pending_safety_checks /\ agent_runs = 1)
             => /\ agent_runs' = 2
                /\ pc' = IF pc = "fill_resumed" THEN "fill_await"
                                                ELSE "provide_await"
                /\ status' = "filling_form"]_vars

\* ------------------------------------------------------------------- C19
\* the background run on instance i is in progress
RunningOn(i) ==
    \E t \in DOMAIN tasks :
       /\ tasks[t].kind = "run" /\ tasks[t].inst = i
       /\ tasks[t].pc \in {"init_await", "login_await", "fill_await"}

\* C19: the remote session is released on error: in the step in which a
\* background run that has acquired a remote session (self.computer holds a
\* started instance) ends with status = error, stop is called on that session
\* as part of handling the error, without a /stop-automation request.
C19_SessionReleasedOnError ==
    [][\A i \in DOMAIN instances :
          (/\ RunningOn(i) /\ ~RunningOn(i)'
           /\ instances'[i].status = "error"
           /\ instances'[i].computer \in {"running", "stopped"})
             => instances'[i].stop_calls = instances[i].stop_calls + 1]_vars

\* ------------------------------------------------------------------- C20
\* the accepted runs in progress: a background task scheduled or running,
\* and an instance whose run is waiting for input or continuing with an input
RunsInProgress ==
    Cardinality({t \in DOMAIN tasks :
                    /\ tasks[t].kind = "run"
                    /\ tasks[t].pc \in {"scheduled", "init_await",
                                        "login_await", "fill_await"}})
    + Cardinality({i \in DOMAIN instances :
                      \/ instances[i].status = "waiting_for_input"
                      \/ \E t \in DOMAIN tasks :
                            tasks[t].kind = "provide" /\ tasks[t].inst = i})

\* C20: the service allows at most one active automation run: in every
\* interleaving of /start-automation requests with the background tasks they
\* schedule, a start is rejected while a run is active (scheduled, running,
\* or waiting for input), so two accepted runs are never in progress at the
\* same time.
C20_AtMostOneActiveRun == RunsInProgress <= 1

\* ------------------------------------------------------------------- C21
\* the lines between the header and the footer of a continuation prompt
ListedInputs(text) ==
    Split(BeforeFirst(AfterFirst(text, InputsHeader), InputsFooter), "\n")

\* C21: the continuation instruction provide_human_input gives its agent
\* lists every entry of human_inputs_collected accumulated so far, in
\* insertion order, each field once with its latest value (the value just
\* supplied for the pending field), not only the entry stored last: after k
\* accepted inputs for k distinct fields it lists k lines "field: value".
C21_ContinuationListsAllInputs ==
    pc = "provide_await" =>
        LET lines == ListedInputs(agent_prompt)
            d == human_inputs_collected
        IN  /\ Len(d) >= 1
            /\ Len(lines) = Len(d)
            /\ \A j \in 1..Len(d) :
                  lines[j] = d[j].field \o <<": ">> \o d[j].value
            /\ \A j, k \in 1..Len(d) : d[j].field = d[k].field => j = k
            /\ DictGet(d, human_input_field) = input_value

\* C21 witness: the second continuation prompt of a session is out, with two
\* fields listed
C21_Witness ==
    /\ pc = "provide_await"
    /\ Len(human_inputs_collected) = 2
    /\ Len(ListedInputs(agent_prompt)) = 2
    /\ ListedInputs(agent_prompt)[1] = <<"Industry", ": ", "Plumbing">>

\* ------------------------------------------------------------------- C22
\* C22: the log is append-only and every status change is logged: no step of
\* any operation removes or rewrites an existing log entry, and a step that
\* changes status appends at least one log entry, so that every operation
\* that changes status appends at least one entry while it runs.
C22_LogAppendOnly ==
    [][/\ Len(log_entries') >= Len(log_entries)
       /\ SubSeq(log_entries', 1, Len(log_entries)) = log_entries
       /\ status' # status => Len(log_entries') > Len(log_entries)
       /\ log_entries' # log_entries => log_file'[1].log_entries = log_entries']_vars

\* C22 witness: run_automation has set status to completed and logged it
C22_Witness ==
    /\ Returned /\ op = "run_automation" /\ status = "completed"
    /\ log_entries[Len(log_entries)].message =
           <<"Automation process completed successfully">>

\* ------------------------------------------------------------------- C23
\* C23 (as claimed): no status transition re-enters initialized: once status
\* has changed away from its initial value initialized, no later step of any
\* operation sets status back to initialized.
C23_InitializedNeverReentered ==
    [][(status # "initialized") => (status' # "initialized")]_vars

\* C23 (amended): the only transition into initialized is initializing ->
\* initialized, taken by initialize_scrapybara when it has acquired the remote
\* session; no other step of any operation sets status to initialized.
C23_InitializedOnlyAfterInitializing ==
    [][(status # "initialized" /\ status' = "initialized") =>
          /\ status = "initializing"
          /\ pc = "init_await" /\ op = "initialize_scrapybara"
          /\ computer' = "running"
          /\ ret' = "True"]_vars

\* C23 witness: initialize_scrapybara has returned success with status back
\* at initialized
C23_Witness ==
    /\ Returned /\ op = "initialize_scrapybara" /\ ret = "True"
    /\ status = "initialized" /\ computer = "running"
    /\ \E i \in 1..Len(log_entries) :
          log_entries[i].message = <<"Initializing Scrapybara instance...">>

\* ------------------------------------------------------------------- C24
\* C24: when the orchestrator was constructed with a previously recorded
\* instance id, initialize_scrapybara acquires the remote session by resuming
\* that instance; a fresh instance is started only when no instance id was
\* supplied.
C24_ResumesRecordedInstance ==
    pc = "init_await" =>
        /\ instance_id = instance_id_arg
        /\ AcquiredBy = IF instance_id_arg # "None" THEN "resume"
                                                    ELSE "start_ubuntu"

\* ------------------------------------------------------------------- C25
\* the agent calls in flight: the coroutines suspended in Runner.run
AgentCalls(ts) ==
    SelectSeq(ts, LAMBDA x : x.pc \in {"login_await", "fill_await",
                                       "provide_await"})

\* a step of cleanup: /stop-automation has called it and it suspends in the
\* stop call, or the stop call has ended and it returns
CleanupStep ==
    \/ /\ requests' = requests + 1 /\ tasks' # tasks
       /\ tasks'[Len(tasks')].kind = "stop"
    \/ \E t \in DOMAIN tasks :
          tasks[t].pc = "cleanup_await" /\ tasks' = Finished(t)

\* C25: cleanup is a best-effort stop that leaves the lifecycle state alone:
\* no step of it changes the status, the pending-request flag or the
\* collected inputs of any instance, and the agent calls in flight stay in
\* flight; their own completion or failure decides the status later.
C25_CleanupLeavesLifecycleAlone ==
    [][CleanupStep =>
          /\ Len(instances') = Len(instances)
          /\ \A i \in DOMAIN instances :
                /\ instances'[i].status = instances[i].status
                /\ instances'[i].require_human_input
                      = instances[i].require_human_input
                /\ instances'[i].human_inputs_collected
                      = instances[i].human_inputs_collected
          /\ AgentCalls(tasks') = AgentCalls(tasks)]_vars

\* C25 witness: the session of an instance was stopped while its form agent
\* is in flight, and the agent call is still there
C25_Witness ==
    \E t \in DOMAIN tasks :
       /\ tasks[t].kind = "run" /\ tasks[t].pc = "fill_await"
       /\ instances[tasks[t].inst].computer = "stopped"
       /\ instances[tasks[t].inst].status = "filling_form"

\* ------------------------------------------------------------------- C26
\* C26: whenever no orchestrator operation is in progress, the persisted
\* record (written on each log append) agrees with the live session: its
\* status, its require_human_input flag and its pending field equal the live
\* ones, so that a reader of the record sees waiting_for_input with the
\* pending field whenever the session is waiting for input.
C26_RecordAgreesWithSession ==
    (Returned /\ log_file # << >>) =>
        /\ log_file[1].status = status
        /\ log_file[1].require_human_input = require_human_input
        /\ log_file[1].human_input_field = human_input_field
        /\ log_file[1].log_entries = log_entries

\* ------------------------------------------------------------------ C27
\* the log holds an entry whose message starts with the given text
Logged(first) ==
    \E i \in 1..Len(log_entries) :
        /\ log_entries[i].message # << >>
        /\ log_entries[i].message[1] = first

\* the position of the last entry whose message starts with the text, or 0
LastLogged(first) ==
    LET at == {i \in 1..Len(log_entries) :
                  /\ log_entries[i].message # << >>
                  /\ log_entries[i].message[1] = first}
    IN  IF at = {} THEN 0 ELSE CHOOSE i \in at : \A j \in at : j <= i

\* C27: the form-filling agent runs only after a login of the same session
\* has succeeded, the continuation agent only after an earlier agent output
\* carried the marker, and no agent runs before initialize_scrapybara has
\* created the remote session object.
C27_AgentsRunInOrder ==
    /\ pc = "fill_await" =>
          /\ LastLogged("Login successful")
                 > LastLogged("Initializing Scrapybara instance...")
          /\ agent_prompt = FillPrompt(email_content.body)
    /\ pc = "provide_await" => Logged("Human input required for field: ")
    /\ pc \in {"login_await", "fill_await", "provide_await"} =>
          /\ computer # "None"
          /\ Logged("Initializing Scrapybara instance...")

\* the continuation agent is running in a session that logged in, asked for
\* a value and was given one
C27_Witness ==
    /\ pc = "provide_await"
    /\ Logged("Login successful")
    /\ Logged("Human input required for field: ")
    /\ computer # "None"
    /\ human_inputs_collected # << >>

\* ------------------------------------------------------------------ C28
\* the continuations of /provide-input suspended in the agent call on
\* instance i
ProvidesOn(ts, i) ==
    SelectSeq(ts, LAMBDA t : t.kind = "provide" /\ t.inst = i)

\* C28: of the /provide-input requests that race on one pending request at
\* most one is accepted; the accepted one leaves status filling_form before
\* it suspends in the agent call, a request arriving meanwhile is answered
\* 400 "not waiting" however it is filled in, and a value is stored only by
\* a step that ends the pending request and starts the one agent call.
C28_OneProvidePerPendingRequest ==
    /\ [](\A i \in DOMAIN instances :
             /\ Len(ProvidesOn(tasks, i)) <= 1
             /\ ProvidesOn(tasks, i) # << >> =>
                   /\ instances[i].status = "filling_form"
                   /\ ~instances[i].require_human_input)
    /\ [][\A i \in DOMAIN instances :
             instances'[i].human_inputs_collected
                   # instances[i].human_inputs_collected =>
                /\ instances'[i].human_inputs_collected
                      = instances[i].human_inputs_collected + 1
                /\ instances[i].status = "waiting_for_input"
                /\ instances'[i].status = "filling_form"
                /\ ProvidesOn(tasks, i) = << >>
                /\ Len(ProvidesOn(tasks', i)) = 1]_vars
    /\ [][(/\ requests' = requests + 1
           /\ automation_instance # 0
           /\ ProvidesOn(tasks, automation_instance) # << >>) =>
              /\ instances'[automation_instance].status = "filling_form"
              /\ instances'[automation_instance].human_inputs_collected
                    = instances[automation_instance].human_inputs_collected
              /\ ProvidesOn(tasks', automation_instance)
                    = ProvidesOn(tasks, automation_instance)
              /\ response'.error \in {"Automation is not waiting for input",
                                      "Automation is already running"}
                    \/ tasks'[Len(tasks')].kind = "stop"]_vars

\* a second /provide-input was answered "not waiting" while the first is
\* suspended in its agent call with the one value stored
C28_Witness ==
    /\ automation_instance # 0
    /\ Len(ProvidesOn(tasks, automation_instance)) = 1
    /\ instances[automation_instance].human_inputs_collected = 1
    /\ response = [code |-> 400, error |-> "Automation is not waiting for input"]

\* ------------------------------------------------------------------ C29
\* C29: a run that stopped making progress never blocks a new one: a
\* request received when every coroutine has returned is not answered
\* "already running".
C29_IdleServiceAcceptsStart ==
    [][(requests' = requests + 1 /\ tasks = << >>) =>
          response'.error # "Automation is already running"]_vars

\* ------------------------------------------------------------------ C30
\* the run on instance i paused for human input at some time: it waits for a
\* value or was given one
Paused(i) ==
    \/ instances[i].require_human_input
    \/ instances[i].human_inputs_collected > 0

\* C30: a run that paused for human input never reaches completed: a value
\* is stored only in a waiting session, a paused run is never completed, and
\* a continuation of /provide-input leaves the run in form_filled, waiting
\* again or in error.
C30_PausedRunNeverCompleted ==
    /\ [](\A i \in DOMAIN instances :
             /\ instances[i].status = "waiting_for_input" => Paused(i)
             /\ Paused(i) => instances[i].status # "completed")
    /\ [][\A i \in DOMAIN instances :
             /\ Paused(i) => Paused(i)'
             /\ (ProvidesOn(tasks, i) # << >> /\ ProvidesOn(tasks', i) = << >>) =>
                   instances'[i].status
                       \in {"form_filled", "waiting_for_input", "error"}]_vars

\* a run that paused was given its value and the agent finished the form:
\* nothing is left to run and the status is form_filled
C30_Witness ==
    /\ automation_instance # 0
    /\ tasks = << >>
    /\ instances[automation_instance].human_inputs_collected > 0
    /\ instances[automation_instance].status = "form_filled"

====
